---- MODULE Spec2Model ----
(***************************************************************************)
(* Garage parking assistant (garage_parking_assistant.ino, v1.10).         *)
(*                                                                         *)
(* The sketch is one cooperative loop.  Each pass of loop() is modelled    *)
(* as the sequence of its statements:                                      *)
(*    run     timer.run(), which may call the handler sleepmode_start      *)
(*    ping    sonar.ping_median / convert_cm, the distance sample          *)
(*    check   the stability check on the sample                            *)
(*    button  the calibration button                                       *)
(*    display the display computation and the end-of-cycle delay           *)
(* with pc naming the statement that runs next.  The MillisTimer library   *)
(* is not part of the sketch; it is modelled by its contract (IdleTimer).  *)
(* Time is counted in abstract clock ticks, the timer interval being       *)
(* TimeoutTicks of them.                                                   *)
(***************************************************************************)
EXTENDS Integers, Sequences, FiniteSets, TLC

\* ---- parameters / layout of the sketch ----
NUM_LEDS == 30
AMBER_LEDS == 5
DISTANCE_TOLERANCE == 5
MAX_DISTANCE == 400
startdistance == 400
stopdistance_default == 10

\* ---- bounds of the model ----
\* LED_TIMEOUT counted in clock ticks
TimeoutTicks == 3
\* a cycle (ping + delay) lasts 1..MaxCycleTicks clock ticks
MaxCycleTicks == 2
\* the display function is exercised on distances 0..DisplayInputMax
DisplayInputMax == 401

\* samples the range sensor delivers in the controller specification:
\* the blind spot, values within tolerance of each other, the scenario value
\* and both ends of the range
Samples == {0, 3, 100, 103, MAX_DISTANCE}

\* content of an EEPROM word that was never written
EE_ERASED == 65535

Colors == {"Black", "Red", "Orange", "Green", "White"}

VARIABLES
    pc,                 \* next statement: "setup" or a statement of loop()
    LED_sleep,          \* bool LED_sleep
    distance,           \* int distance
    previous_distance,  \* int previous_distance
    stopdistance,       \* int stopdistance
    increment,          \* int increment
    stopdistance_ee,    \* uint16_t stopdistance_ee EEMEM
    leds_L, leds_R,     \* CRGB leds_L[NUM_LEDS], leds_R[NUM_LEDS]; LED i is element i+1
    m_state,            \* MillisTimer state
    elapsed,            \* clock ticks since timer.start(), capped at TimeoutTicks
    lastShow,           \* who called FastLED.show() last
    sleptAtPing,        \* history: LED_sleep when this cycle's sample was taken
    inTol,              \* history: this cycle's sample was within tolerance
    fires               \* history: handler calls since the main body last reset the timer

vars == <<pc, LED_sleep, distance, previous_distance, stopdistance, increment,
          stopdistance_ee, leds_L, leds_R, m_state, elapsed, lastShow,
          sleptAtPing, inTol, fires>>

ctrlVars == <<LED_sleep, distance, previous_distance, stopdistance, increment,
              stopdistance_ee, leds_L, leds_R, m_state, elapsed, lastShow,
              sleptAtPing, inTol, fires>>

\* ---- helpers ----
Abs(x) == IF x < 0 THEN -x ELSE x

Min(a, b) == IF a < b THEN a ELSE b

\* C integer division truncates toward zero
CDiv(a, b) == IF a >= 0 THEN a \div b ELSE -((-a) \div b)

\* uint16_t -> int (16 bit) conversion of the value read from EEPROM
ToInt16(w) == IF w >= 32768 THEN w - 65536 ELSE w

\* int -> uint16_t conversion of the value written to EEPROM
ToUint16(v) == v % 65536

AllLeds(c) == [i \in 1..NUM_LEDS |-> c]

\* increment = (startdistance - stopdistance)/NUM_LEDS
IncrementOf(stop) == CDiv(startdistance - stop, NUM_LEDS)

\* variant: the strip is filled from its far end
Threshold_reversed(stop, inc, i) == stop + inc * (NUM_LEDS - 1 - i)

\* variant: LED i is compared with the threshold of LED i+1
Threshold_next(stop, inc, i) == stop + inc * (i + 1)

\* threshold of LED i (0-based): stopdistance+increment*i
Threshold(stop, inc, i) == stop + inc * i

\* variant: the amber cutoff of the earlier versions of the sketch
ActiveColor_v08(d, stop, inc) ==
    IF d < stop + (AMBER_LEDS + 1) * inc THEN "Orange" ELSE "Green"

\* variant: amber while the distance is below the threshold of LED AMBER_LEDS+1
ActiveColor_late(d, stop, inc) ==
    IF d <= stop + (AMBER_LEDS + 1) * inc THEN "Orange" ELSE "Green"

\* variant: the two colours are exchanged
ActiveColor_swapped(d, stop, inc) ==
    IF d <= stop + AMBER_LEDS * inc THEN "Green" ELSE "Orange"

\* colour of the lit LEDs of a frame in the active zone
ActiveColor(d, stop, inc) ==
    IF d <= stop + AMBER_LEDS * inc THEN "Orange" ELSE "Green"

\* variant: no test for distances beyond startdistance
Display_noFarZone(d, stop, inc) ==
    IF d <= stop
    THEN AllLeds(IF d # 0 THEN "Red" ELSE "Black")
    ELSE [i \in 1..NUM_LEDS |->
             IF d > Threshold(stop, inc, i - 1)
             THEN ActiveColor(d, stop, inc)
             ELSE "Black"]

\* variant: the stop zone is red also for a sample of 0, as in the earlier
\* versions of the sketch
Display_redAtZero(d, stop, inc) ==
    IF d > startdistance
    THEN AllLeds("Black")
    ELSE IF d <= stop
         THEN AllLeds("Red")
         ELSE [i \in 1..NUM_LEDS |->
                  IF d > Threshold(stop, inc, i - 1)
                  THEN ActiveColor(d, stop, inc)
                  ELSE "Black"]

\* the frame loop() computes for one strip when awake
Display(d, stop, inc) ==
    IF d > startdistance
    THEN AllLeds("Black")
    ELSE IF d <= stop
         THEN AllLeds(IF d # 0 THEN "Red" ELSE "Black")
         ELSE [i \in 1..NUM_LEDS |->
                  IF d > Threshold(stop, inc, i - 1)
                  THEN ActiveColor(d, stop, inc)
                  ELSE "Black"]

\* ---- MillisTimer (contract of the idle timer) ----
TimerIsRunning == m_state = "RUNNING"

TimerDue == m_state = "RUNNING" /\ elapsed >= TimeoutTicks

\* the clock advances by dt ticks; only a running timer observes it
Advance(dt) == IF m_state = "RUNNING" THEN Min(elapsed + dt, TimeoutTicks) ELSE elapsed

\* ---- construction: globals before setup() ----
Construct ==
    /\ pc = "setup"
    /\ LED_sleep = FALSE
    /\ distance = 0
    /\ previous_distance = 0
    /\ stopdistance = stopdistance_default
    /\ increment = 0
    /\ leds_L = AllLeds("Black")
    /\ leds_R = AllLeds("Black")
    /\ m_state = "STOPPED"
    /\ elapsed = 0
    /\ lastShow = "none"
    /\ sleptAtPing = FALSE
    /\ inTol = FALSE
    /\ fires = 0

Init ==
    /\ Construct
    /\ stopdistance_ee = EE_ERASED

\* ---- setup() ----
Setup ==
    /\ pc = "setup"
    /\ LED_sleep' = FALSE
    /\ stopdistance' = IF stopdistance = 0 THEN ToInt16(stopdistance_ee) ELSE stopdistance
    /\ increment' = IncrementOf(stopdistance')
    \* version flash, then clear LEDs and show
    /\ leds_L' = AllLeds("Black")
    /\ leds_R' = AllLeds("Black")
    /\ lastShow' = "setup"
    /\ pc' = "run"
    /\ UNCHANGED <<distance, previous_distance, stopdistance_ee, m_state, elapsed,
                   sleptAtPing, inTol, fires>>

\* variant: the handler sets the sleep state without blanking the strips
TimerExpire_noBlank ==
    /\ pc = "run"
    /\ TimerDue
    /\ m_state' = "STOPPED"
    /\ elapsed' = 0
    /\ LED_sleep' = TRUE
    /\ fires' = Min(fires + 1, 2)
    /\ pc' = "ping"
    /\ UNCHANGED <<distance, previous_distance, stopdistance, increment,
                   stopdistance_ee, leds_L, leds_R, lastShow, sleptAtPing, inTol>>

\* variant: the handler does not call timer.reset(), the timer re-arms itself
TimerExpire_noReset ==
    /\ pc = "run"
    /\ TimerDue
    /\ leds_L' = AllLeds("Black")
    /\ leds_R' = AllLeds("Black")
    /\ lastShow' = "sleepmode_start"
    /\ m_state' = "RUNNING"
    /\ elapsed' = 0
    /\ LED_sleep' = TRUE
    /\ fires' = Min(fires + 1, 2)
    /\ pc' = "ping"
    /\ UNCHANGED <<distance, previous_distance, stopdistance, increment,
                   stopdistance_ee, sleptAtPing, inTol>>

\* ---- sleepmode_start(), called by timer.run() on expiry ----
TimerExpire ==
    /\ pc = "run"
    /\ TimerDue
    /\ leds_L' = AllLeds("Black")
    /\ leds_R' = AllLeds("Black")
    /\ lastShow' = "sleepmode_start"
    \* timer.reset()
    /\ m_state' = "STOPPED"
    /\ elapsed' = 0
    /\ LED_sleep' = TRUE
    /\ fires' = Min(fires + 1, 2)
    /\ pc' = "ping"
    /\ UNCHANGED <<distance, previous_distance, stopdistance, increment,
                   stopdistance_ee, sleptAtPing, inTol>>

\* timer.run() with nothing to do
TimerIdle ==
    /\ pc = "run"
    /\ ~TimerDue
    /\ pc' = "ping"
    /\ UNCHANGED ctrlVars

\* ---- distance = sonar.convert_cm(sonar.ping_median(...)) ----
Ping ==
    /\ pc = "ping"
    /\ \E d \in Samples : distance' = d
    /\ sleptAtPing' = LED_sleep
    /\ pc' = "check"
    /\ UNCHANGED <<LED_sleep, previous_distance, stopdistance, increment,
                   stopdistance_ee, leds_L, leds_R, m_state, elapsed, lastShow,
                   inTol, fires>>

\* variant: the signed difference is compared, without abs()
WithinTolerance_noAbs == (distance - previous_distance) < DISTANCE_TOLERANCE

\* ---- stability check ----
WithinTolerance == Abs(distance - previous_distance) < DISTANCE_TOLERANCE

\* variant: the sleep flag is not consulted before starting the timer
MayStartTimer_ignoreSleep == ~TimerIsRunning

\* variant: a running countdown is restarted by every stable sample
MayStartTimer_restart == ~LED_sleep

MayStartTimer == ~TimerIsRunning /\ ~LED_sleep

\* variant: a stable sample also becomes the new reference distance
StableSample_tracks ==
    /\ pc = "check"
    /\ WithinTolerance
    /\ IF MayStartTimer
       THEN /\ m_state' = "RUNNING"
            /\ elapsed' = 0
       ELSE UNCHANGED <<m_state, elapsed>>
    /\ previous_distance' = distance
    /\ inTol' = TRUE
    /\ pc' = "button"
    /\ UNCHANGED <<LED_sleep, distance, stopdistance, increment,
                   stopdistance_ee, leds_L, leds_R, lastShow, sleptAtPing, fires>>

StableSample ==
    /\ pc = "check"
    /\ WithinTolerance
    /\ IF MayStartTimer
       THEN /\ m_state' = "RUNNING"
            /\ elapsed' = 0
       ELSE UNCHANGED <<m_state, elapsed>>
    /\ inTol' = TRUE
    /\ pc' = "button"
    /\ UNCHANGED <<LED_sleep, distance, previous_distance, stopdistance, increment,
                   stopdistance_ee, leds_L, leds_R, lastShow, sleptAtPing, fires>>

\* variant: the sleep flag is set instead of cleared
MovedSample_setsSleep ==
    /\ pc = "check"
    /\ ~WithinTolerance
    /\ previous_distance' = distance
    /\ m_state' = "STOPPED"
    /\ elapsed' = 0
    /\ LED_sleep' = TRUE
    /\ inTol' = FALSE
    /\ fires' = 0
    /\ pc' = "button"
    /\ UNCHANGED <<distance, stopdistance, increment, stopdistance_ee,
                   leds_L, leds_R, lastShow, sleptAtPing>>

\* variant: movement resets the timer but leaves the sleep flag alone
MovedSample_keepsSleep ==
    /\ pc = "check"
    /\ ~WithinTolerance
    /\ previous_distance' = distance
    /\ m_state' = "STOPPED"
    /\ elapsed' = 0
    /\ inTol' = FALSE
    /\ fires' = 0
    /\ pc' = "button"
    /\ UNCHANGED <<LED_sleep, distance, stopdistance, increment, stopdistance_ee,
                   leds_L, leds_R, lastShow, sleptAtPing>>

\* variant: the sample is stored in stopdistance instead of previous_distance
MovedSample_writesStop ==
    /\ pc = "check"
    /\ ~WithinTolerance
    /\ stopdistance' = distance
    /\ m_state' = "STOPPED"
    /\ elapsed' = 0
    /\ LED_sleep' = FALSE
    /\ inTol' = FALSE
    /\ fires' = 0
    /\ pc' = "button"
    /\ UNCHANGED <<distance, previous_distance, increment, stopdistance_ee,
                   leds_L, leds_R, lastShow, sleptAtPing>>

MovedSample ==
    /\ pc = "check"
    /\ ~WithinTolerance
    /\ previous_distance' = distance
    /\ m_state' = "STOPPED"
    /\ elapsed' = 0
    /\ LED_sleep' = FALSE
    /\ inTol' = FALSE
    /\ fires' = 0
    /\ pc' = "button"
    /\ UNCHANGED <<distance, stopdistance, increment, stopdistance_ee,
                   leds_L, leds_R, lastShow, sleptAtPing>>

\* variant: the press stores the stop distance without recomputing increment
ButtonPressed_staleIncrement ==
    /\ pc = "button"
    /\ stopdistance' = distance
    /\ stopdistance_ee' = ToUint16(stopdistance')
    /\ pc' = "display"
    /\ UNCHANGED <<LED_sleep, distance, previous_distance, increment, leds_L, leds_R,
                   m_state, elapsed, lastShow, sleptAtPing, inTol, fires>>

\* ---- calibration button ----
ButtonPressed ==
    /\ pc = "button"
    /\ stopdistance' = distance
    /\ stopdistance_ee' = ToUint16(stopdistance')
    /\ increment' = IncrementOf(stopdistance')
    /\ pc' = "display"
    /\ UNCHANGED <<LED_sleep, distance, previous_distance, leds_L, leds_R,
                   m_state, elapsed, lastShow, sleptAtPing, inTol, fires>>

ButtonReleased ==
    /\ pc = "button"
    /\ pc' = "display"
    /\ UNCHANGED ctrlVars

\* ---- display and end-of-cycle delay ----
DisplayAwake ==
    /\ pc = "display"
    /\ ~LED_sleep
    /\ leds_L' = Display(distance, stopdistance, increment)
    /\ leds_R' = Display(distance, stopdistance, increment)
    /\ lastShow' = "loop"
    /\ \E dt \in 1..MaxCycleTicks : elapsed' = Advance(dt)
    /\ pc' = "run"
    /\ UNCHANGED <<LED_sleep, distance, previous_distance, stopdistance, increment,
                   stopdistance_ee, m_state, sleptAtPing, inTol, fires>>

SleepDelay ==
    /\ pc = "display"
    /\ LED_sleep
    /\ \E dt \in 1..MaxCycleTicks : elapsed' = Advance(dt)
    /\ pc' = "run"
    /\ UNCHANGED <<LED_sleep, distance, previous_distance, stopdistance, increment,
                   stopdistance_ee, leds_L, leds_R, m_state, lastShow,
                   sleptAtPing, inTol, fires>>

\* ---- power cycle: RAM is re-initialised, the EEPROM keeps its content ----
PowerCycle ==
    /\ pc # "setup"
    /\ pc' = "setup"
    /\ LED_sleep' = FALSE
    /\ distance' = 0
    /\ previous_distance' = 0
    /\ stopdistance' = stopdistance_default
    /\ increment' = 0
    /\ leds_L' = AllLeds("Black")
    /\ leds_R' = AllLeds("Black")
    /\ m_state' = "STOPPED"
    /\ elapsed' = 0
    /\ lastShow' = "none"
    /\ sleptAtPing' = FALSE
    /\ inTol' = FALSE
    /\ fires' = 0
    /\ UNCHANGED stopdistance_ee

Cycle ==
    \/ TimerExpire
    \/ TimerIdle
    \/ Ping
    \/ StableSample
    \/ MovedSample
    \/ ButtonPressed
    \/ ButtonReleased
    \/ DisplayAwake
    \/ SleepDelay

Next ==
    \/ Setup
    \/ Cycle
    \/ PowerCycle

Spec == Init /\ [][Next]_vars

TypeOK ==
    /\ pc \in {"setup", "run", "ping", "check", "button", "display"}
    /\ LED_sleep \in BOOLEAN
    /\ distance \in 0..DisplayInputMax
    /\ previous_distance \in 0..DisplayInputMax
    /\ stopdistance \in 0..DisplayInputMax
    /\ stopdistance_ee \in 0..65535
    /\ leds_L \in [1..NUM_LEDS -> Colors]
    /\ leds_R = leds_L
    /\ m_state \in {"STOPPED", "RUNNING", "EXPIRED"}
    /\ elapsed \in 0..TimeoutTicks
    /\ fires \in 0..2

\* ---- liveness: the loop keeps cycling, no power cycle ----
LiveNext ==
    \/ Setup
    \/ Cycle

LiveSpec == Init /\ [][LiveNext]_vars /\ WF_vars(LiveNext)

\* ---- the display computation on its whole input range ----
\* an awake cycle that reached its display statement with sample d after the
\* stop distance was left at its default or calibrated to s
InitDisplay ==
    /\ pc = "display"
    /\ LED_sleep = FALSE
    /\ distance \in 0..DisplayInputMax
    /\ stopdistance \in 0..MAX_DISTANCE
    /\ increment = IncrementOf(stopdistance)
    /\ previous_distance = distance
    /\ stopdistance_ee = ToUint16(stopdistance)
    /\ leds_L = AllLeds("Black")
    /\ leds_R = AllLeds("Black")
    /\ m_state = "STOPPED"
    /\ elapsed = 0
    /\ lastShow = "setup"
    /\ sleptAtPing = FALSE
    /\ inTol = FALSE
    /\ fires = 0

NextDisplay == DisplayAwake

SpecDisplay == InitDisplay /\ [][NextDisplay]_vars

\* ======================= sleep state machine =======================

\* C1: LED_sleep is false after setup(), and it changes from false to true
\* only in the step in which timer.run() calls the expiry handler
\* sleepmode_start; no other statement of loop() sets it.
C1_SleepOnlyByHandler ==
    [][ /\ (pc = "setup" => ~LED_sleep')
        /\ ((~LED_sleep /\ LED_sleep') => (pc = "run" /\ TimerDue)) ]_vars

C1_Witness ==
    /\ pc = "ping"
    /\ LED_sleep
    /\ lastShow = "sleepmode_start"

\* C2: a cycle that took its sample while asleep and found it out of
\* tolerance ends awake, with previous_distance equal to the sample and the
\* timer reset, whatever the button did.
C2_WakeOnMovement ==
    (pc \in {"button", "display", "run"} /\ sleptAtPing /\ ~inTol)
        => /\ ~LED_sleep
           /\ previous_distance = distance
           /\ m_state = "STOPPED"
           /\ elapsed = 0

C2_Witness ==
    /\ pc = "run"
    /\ sleptAtPing
    /\ ~inTol
    /\ ~LED_sleep
    /\ lastShow = "loop"
    /\ stopdistance = distance
    /\ stopdistance # stopdistance_default

\* C3: the handler is called in exactly the timer.run() steps that find the
\* running timer at its interval, and it is called at most once between two
\* resets of the timer by the main body.
C3_OneShot ==
    [][ /\ (fires' > fires) <=>
               (pc = "run" /\ pc' = "ping" /\ m_state = "RUNNING" /\ elapsed >= TimeoutTicks)
        /\ fires' <= 1 ]_vars

C3_Witness ==
    /\ pc = "run"
    /\ fires = 1
    /\ LED_sleep
    /\ inTol
    /\ m_state = "STOPPED"

\* C4: if from some cycle on every sample is within tolerance, the
\* controller eventually sleeps for good; sleep is left only by the
\* stability check of an out-of-tolerance sample.
C4_EventuallySleeps ==
    /\ (<>[]inTol) => (<>[]LED_sleep)
    /\ [][(LED_sleep /\ ~LED_sleep') => (pc = "check" /\ ~WithinTolerance)]_vars

C4_Witness ==
    /\ LED_sleep
    /\ inTol
    /\ pc = "display"

\* ======================= display =======================

\* the frame on the strips was computed by the display statement of the
\* cycle that just ended, from the current distance, stopdistance, increment
Displayed == pc = "run" /\ lastShow = "loop"

ActiveZone == stopdistance < distance /\ distance <= startdistance

Lit(f) == {i \in 1..NUM_LEDS : f[i] # "Black"}

AllAre(c) == \A i \in 1..NUM_LEDS : leds_L[i] = c /\ leds_R[i] = c

\* C5: an awake cycle whose sample is beyond startdistance leaves every LED
\* of both strips off.
C5_FarIsDark ==
    (Displayed /\ distance > startdistance) => AllAre("Black")

C5_Witness ==
    /\ Displayed
    /\ distance > startdistance
    /\ stopdistance # stopdistance_default
    /\ AllAre("Black")

\* C6: an awake cycle with 0 < distance <= stopdistance shows every LED red,
\* and one with distance = 0 shows every LED off.
C6_StopZone ==
    Displayed =>
        /\ (0 < distance /\ distance <= stopdistance) => AllAre("Red")
        /\ (distance = 0) => AllAre("Black")

C6_Witness ==
    /\ Displayed
    /\ 0 < distance
    /\ distance <= stopdistance
    /\ stopdistance # stopdistance_default
    /\ AllAre("Red")

\* C7: in the active zone the lit LEDs are a prefix of the strip, and one
\* centimetre more of distance never lights fewer LEDs.
C7_PrefixMonotone ==
    (Displayed /\ ActiveZone) =>
        /\ \A i \in 1..NUM_LEDS : \A j \in 1..NUM_LEDS :
               (i < j /\ leds_L[j] # "Black") => leds_L[i] # "Black"
        /\ leds_R = leds_L
        /\ (distance + 1 <= startdistance) =>
               Cardinality(Lit(leds_L)) <=
                   Cardinality(Lit(Display(distance + 1, stopdistance, increment)))

C7_Witness ==
    /\ Displayed
    /\ ActiveZone
    /\ stopdistance # stopdistance_default
    /\ Cardinality(Lit(leds_L)) \in 2..(NUM_LEDS - 1)
    /\ Cardinality(Lit(Display(distance + 1, stopdistance, increment)))
           = Cardinality(Lit(leds_L)) + 1

\* C8: in the active zone every lit LED is amber when
\* distance <= stopdistance + AMBER_LEDS*increment and green otherwise.
C8_AmberCutoff ==
    (Displayed /\ ActiveZone) =>
        \A i \in Lit(leds_L) :
            leds_L[i] = (IF distance <= stopdistance + AMBER_LEDS * increment
                         THEN "Orange" ELSE "Green")

C8_Witness ==
    /\ Displayed
    /\ ActiveZone
    /\ increment > 0
    /\ distance = stopdistance + AMBER_LEDS * increment
    /\ Lit(leds_L) = 1..AMBER_LEDS
    /\ leds_L[AMBER_LEDS] = "Orange"

\* C9 as claimed: within the lit prefix the LEDs 0..AMBER_LEDS-1 are amber
\* and the lit LEDs from AMBER_LEDS on are green.
C9_AmberByIndex ==
    (Displayed /\ ActiveZone) =>
        \A i \in Lit(leds_L) :
            leds_L[i] = (IF i - 1 < AMBER_LEDS THEN "Orange" ELSE "Green")

\* C9 amended: the lit prefix has one colour; it is amber exactly when it has
\* at most AMBER_LEDS LEDs (so amber only occurs at LEDs 0..AMBER_LEDS-1),
\* and otherwise all of it is green.
C9_AmberWholePrefix ==
    (Displayed /\ ActiveZone) =>
        \A i \in Lit(leds_L) :
            /\ leds_L[i] = (IF Cardinality(Lit(leds_L)) <= AMBER_LEDS
                            THEN "Orange" ELSE "Green")
            /\ leds_L[i] = "Orange" => i - 1 < AMBER_LEDS

C9_Witness ==
    /\ Displayed
    /\ ActiveZone
    /\ Cardinality(Lit(leds_L)) = AMBER_LEDS + 1
    /\ leds_L[1] = "Green"
    /\ leds_L[AMBER_LEDS + 1] = "Green"

\* C10: with the default stop distance the increment is 13, and an awake
\* cycle with distance 100 shows LEDs 0..6 green and LEDs 7..29 off.
C10_Scenario ==
    /\ (pc # "setup" /\ stopdistance = 10) => increment = 13
    /\ (Displayed /\ stopdistance = 10 /\ distance = 100) =>
           \A i \in 1..NUM_LEDS :
               /\ leds_L[i] = (IF i - 1 <= 6 THEN "Green" ELSE "Black")
               /\ leds_R[i] = leds_L[i]

C10_Witness ==
    /\ Displayed
    /\ stopdistance = 10
    /\ increment = 13
    /\ distance = 100
    /\ Lit(leds_L) = 1..7

\* ======================= calibration =======================

\* C11 as claimed: 0 < stopdistance < startdistance in every state.
C11_StopInRange ==
    0 < stopdistance /\ stopdistance < startdistance

\* C12 as claimed: once setup() has run, increment >= 1.
C12_IncrementPositive ==
    pc # "setup" => increment >= 1

\* C13: once setup() has run, increment is the truncated quotient of
\* startdistance - stopdistance by NUM_LEDS for the current stopdistance, and
\* a displayed frame is the one computed from that quotient.
C13_IncrementFresh ==
    pc # "setup" =>
        /\ increment * NUM_LEDS <= startdistance - stopdistance
        /\ startdistance - stopdistance < (increment + 1) * NUM_LEDS
        /\ (pc = "run" /\ lastShow = "loop") =>
               leds_L = Display(distance, stopdistance,
                                (startdistance - stopdistance) \div NUM_LEDS)

C13_Witness ==
    /\ pc = "run"
    /\ lastShow = "loop"
    /\ stopdistance = distance
    /\ stopdistance_ee = distance
    /\ increment # 13
    /\ increment = (startdistance - distance) \div NUM_LEDS

\* C14: within loop(), stopdistance, increment and the EEPROM word change
\* only at the button statement, and only to the values the calibration
\* stores for the current sample; every other statement, and the button
\* statement of a cycle without a press, leaves all three unchanged.
C14_OnlyCalibrationWrites ==
    [][ (pc # "setup" /\ pc' # "setup"
          /\ <<stopdistance, increment, stopdistance_ee>>' #
                 <<stopdistance, increment, stopdistance_ee>>)
        => /\ pc = "button"
           /\ stopdistance' = distance
           /\ stopdistance_ee' = distance
           /\ increment' * NUM_LEDS <= startdistance - distance
           /\ startdistance - distance < (increment' + 1) * NUM_LEDS ]_vars

C14_Witness ==
    /\ pc = "run"
    /\ stopdistance = 100
    /\ stopdistance_ee = 100
    /\ increment = 10
    /\ distance = 0
    /\ previous_distance = 0
    /\ LED_sleep

\* C15 as claimed: after a power cycle and setup(), a calibration stored in
\* the EEPROM is the stop distance in effect.
C15_RoundTrip ==
    (pc = "run" /\ lastShow = "setup" /\ stopdistance_ee # EE_ERASED)
        => stopdistance = stopdistance_ee

\* ======================= stability check =======================

\* the step is the stability check of loop()
CheckStep == pc = "check" /\ pc' = "button"

\* C16 as claimed: the stability check of a cycle whose sample is 0 leaves
\* LED_sleep as it was.
C16_ZeroKeepsSleep ==
    [][(CheckStep /\ distance = 0) => LED_sleep' = LED_sleep]_vars

\* C16 amended: the stability check of a cycle whose sample is 0 leaves
\* LED_sleep as it was when previous_distance < DISTANCE_TOLERANCE, and
\* clears it otherwise.
C16_ZeroLikeAnySample ==
    [][(CheckStep /\ distance = 0) =>
           LED_sleep' = (LED_sleep /\ previous_distance < DISTANCE_TOLERANCE)]_vars

C16_Witness ==
    /\ pc = "button"
    /\ distance = 0
    /\ previous_distance = 3
    /\ sleptAtPing
    /\ inTol
    /\ LED_sleep

\* C17: a sample within tolerance starts the timer only if it is not running
\* and the controller is awake, and otherwise changes neither the timer nor
\* previous_distance nor LED_sleep; a sample out of tolerance stores the
\* sample in previous_distance, resets the timer and clears LED_sleep.
C17_StabilityStep ==
    [][CheckStep =>
         IF Abs(distance - previous_distance) < DISTANCE_TOLERANCE
         THEN /\ previous_distance' = previous_distance
              /\ LED_sleep' = LED_sleep
              /\ IF m_state # "RUNNING" /\ ~LED_sleep
                 THEN m_state' = "RUNNING" /\ elapsed' = 0
                 ELSE m_state' = m_state /\ elapsed' = elapsed
         ELSE /\ previous_distance' = distance
              /\ m_state' = "STOPPED"
              /\ ~LED_sleep' ]_vars

C17_Witness ==
    /\ pc = "button"
    /\ inTol
    /\ m_state = "RUNNING"
    /\ elapsed > 0
    /\ distance # previous_distance

\* ======================= sleep invariants =======================

\* C18: while the controller is asleep every LED of both strips is off and
\* the frame on the strips is the one sleepmode_start pushed, also after a
\* calibration press.
C18_AsleepIsDark ==
    LED_sleep =>
        /\ \A i \in 1..NUM_LEDS : leds_L[i] = "Black" /\ leds_R[i] = "Black"
        /\ lastShow = "sleepmode_start"

C18_Witness ==
    /\ pc = "run"
    /\ LED_sleep
    /\ stopdistance = distance
    /\ stopdistance_ee = distance
    /\ distance = 103
    /\ previous_distance = 100
    /\ leds_L = AllLeds("Black")

\* C19: the timer is never running while the controller is asleep, and
\* within loop() sleep is left only by the stability check of an
\* out-of-tolerance sample.
C19_NoTimerAsleep ==
    /\ [](~(LED_sleep /\ m_state = "RUNNING"))
    /\ [][(LED_sleep /\ ~LED_sleep' /\ pc' # "setup")
             => (pc = "check" /\ Abs(distance - previous_distance) >= DISTANCE_TOLERANCE)]_vars

C19_Witness ==
    /\ pc = "run"
    /\ LED_sleep
    /\ inTol
    /\ sleptAtPing
    /\ m_state = "STOPPED"
    /\ fires = 1

\* C20: a displayed frame that contains an amber LED has at most AMBER_LEDS
\* lit LEDs.
C20_AmberBounded ==
    (pc = "run" /\ lastShow = "loop" /\ \E i \in 1..NUM_LEDS : leds_L[i] = "Orange")
        => Cardinality({i \in 1..NUM_LEDS : leds_L[i] # "Black"}) <= AMBER_LEDS

C20_Witness ==
    /\ pc = "run"
    /\ lastShow = "loop"
    /\ stopdistance # stopdistance_default
    /\ increment > 1
    /\ \A i \in 1..NUM_LEDS : leds_L[i] = (IF i <= AMBER_LEDS THEN "Orange" ELSE "Black")
====
